---- MODULE Spec2Model ----
(***************************************************************************)
(* memcache_zipserve.py: MemcachedZipHandler serves GET requests from a    *)
(* series of zip archives through memcache (a positive tier under the key  *)
(* prefix cache:// and a negative tier under noncache://), with locale     *)
(* fallback for intl/<lang>/... paths.                                      *)
(*                                                                         *)
(* A string that the code splits on '/' is modelled as the sequence of its *)
(* segments, exactly as str.split('/') yields it: '' is <<"">>, 'guide/'   *)
(* is <<"guide", "">>.  What the code asks about the characters of a       *)
(* segment ('.' in it, '.html' in it, its MIME type, its order under <) is *)
(* tabulated for the segment texts of the model.                           *)
(***************************************************************************)
EXTENDS Integers, Sequences, FiniteSets, TLC

VARIABLES zipfilenames,   \* HandlerWrapper: the zip_files list of lists
          tunables,       \* create_handler's max_age and public arguments
          workers,        \* the handlers that serve requests
          traffic,        \* the requests clients send
          MAX_AGE,        \* class attribute MemcachedZipHandler.MAX_AGE
          PUBLIC,         \* class attribute MemcachedZipHandler.PUBLIC
          memcache,       \* the memcache service: key -> value
          zipfile_cache,  \* class attribute: names of the archives opened
          logged,         \* whether LoadZipFile has logged "Can't open zipfile"
          pc,             \* per handler: the call it is about to make
          req,            \* per handler: the request it serves
          loc,            \* per handler: the arguments of its CreateResponse
          resp_data,      \* per handler: the bytes GetFromStore returned
          resp,           \* per handler: the response built
          calls,          \* per handler: the CreateResponse calls of the request
          left,           \* requests still to be accepted
          rejected,       \* the (name, data) StoreOrUpdateInCache logged as too large
          earlier,        \* per handler: rejected when its request came in
          call,           \* a call of CompareFilenames or MapFileToArchive
          returned,       \* whether that call is over
          result          \* what it returned or raised

vars == <<zipfilenames, tunables, workers, traffic, MAX_AGE, PUBLIC, memcache,
          zipfile_cache, logged, pc, req, loc, resp_data, resp, calls, left,
          rejected, earlier, call, returned, result>>

\* what no action changes: the deployment and the class attributes
config == <<zipfilenames, tunables, workers, traffic, MAX_AGE, PUBLIC>>

\* the state of a call of one of the two path functions on its own
pure == <<call, returned, result>>

None == "None"
IndexError == "IndexError"

(***************************************************************************)
(* Bounds of the model.                                                    *)
(***************************************************************************)
\* requests accepted by a single handler, and by handlers that run concurrently
MaxRequests == 2
MaxRaceRequests == 3
\* segments of a path, and entries of an ArchiveSet, in a call of
\* CompareFilenames or MapFileToArchive on its own
MaxSegments == 3
MaxArchives == 3
Handlers == {"h1", "h2"}

(***************************************************************************)
(* Segment texts and what the code observes of them.                       *)
(***************************************************************************)
\* the segment texts of the model in ascending order of Python's str <
SegOrder == <<"", "Apple", "a.html", "apple", "b.png", "big.png", "c.xyz",
              "d.psd", "de",
              "e.html.xyz", "favicon.ico", "fr", "index.html", "intl",
              "nope.png", "x", "xx">>

Segs == {SegOrder[i] : i \in 1..Len(SegOrder)}

SegIndex(s) == CHOOSE i \in 1..Len(SegOrder) : SegOrder[i] = s

\* s1 < s2 on two segment texts
SegLess(s1, s2) == SegIndex(s1) < SegIndex(s2)

\* segment.find('.') != -1
HasDot(s) == s \in {"a.html", "b.png", "big.png", "c.xyz", "d.psd", "e.html.xyz",
                    "favicon.ico", "index.html", "nope.png"}

\* '.html' in name: '.html' holds no '/', so it lies within one segment
HasHtml(name) ==
    \E i \in 1..Len(name) : name[i] \in {"a.html", "e.html.xyz", "index.html"}

\* mimetypes.guess_type(name)[0]: decided by the extension of the last segment
GuessType(name) ==
    LET last == name[Len(name)]
    IN  CASE last \in {"a.html", "index.html"} -> "text/html"
          [] last \in {"b.png", "big.png", "nope.png"} -> "image/png"
          [] OTHER -> None

\* name.endswith('.psd')
EndsWithPsd(name) == name[Len(name)] = "d.psd"

validLangs == {"en", "de", "es", "fr", "it", "ja", "zh-CN", "zh-TW"}

CACHE_PREFIX == "cache://"
NEG_CACHE_PREFIX == "noncache://"

(***************************************************************************)
(* The archives on disk: archive name -> member path -> bytes.             *)
(* a.html is packed in both archives, with different bytes.                *)
(***************************************************************************)
ZipContents ==
    [z \in {"z1.zip", "z2.zip"} |->
       IF z = "z1.zip"
       THEN (<<"a.html">> :> "A1") @@ (<<"b.png">> :> "B") @@
            (<<"big.png">> :> "BIG") @@ (<<"c.xyz">> :> "X") @@
            (<<"e.html.xyz">> :> "E")
       ELSE (<<"a.html">> :> "A2") @@ (<<"d.psd">> :> "P") @@
            (<<"favicon.ico">> :> "F") @@ (<<"intl", "de", "a.html">> :> "DA")]

\* len(data) of the bytes above
DataSize(data) == IF data = "BIG" THEN 1000001 ELSE 100

\* memcache's maximum item size, 1*10^6 bytes
MaxItemSize == 1000000

\* create_handler: an item of zip_files that is not a list (a bare name)
\* becomes a list of one member
create_handler(zip_files) ==
    [i \in 1..Len(zip_files) |->
        IF "list" \in DOMAIN zip_files[i] THEN zip_files[i].list
                                          ELSE <<zip_files[i].name>>]

(***************************************************************************)
(* CompareFilenames, MapFileToArchive                                      *)
(***************************************************************************)
RECURSIVE MatchingSegments(_, _, _)
\* the while loop of CompareFilenames: segment_ptr when it ends
MatchingSegments(f1_segments, f2_segments, segment_ptr) ==
    IF /\ segment_ptr < Len(f1_segments)
       /\ segment_ptr < Len(f2_segments)
       /\ f1_segments[segment_ptr + 1] = f2_segments[segment_ptr + 1]
    THEN MatchingSegments(f1_segments, f2_segments, segment_ptr + 1)
    ELSE segment_ptr

\* what CompareFilenames yields: a number, or IndexError raised
Returns(n) == [raised |-> None, value |-> n]
Raises(e) == [raised |-> e, value |-> 0]

\* the comparison with the two outcomes the other way round
CompareSegmentsAt_Inverted(f1_segments, f2_segments, segment_ptr) ==
    IF segment_ptr >= Len(f1_segments) \/ segment_ptr >= Len(f2_segments)
    THEN Raises(IndexError)
    ELSE IF SegLess(f1_segments[segment_ptr + 1], f2_segments[segment_ptr + 1])
         THEN Returns(-1)
         ELSE IF SegLess(f2_segments[segment_ptr + 1], f1_segments[segment_ptr + 1])
              THEN Returns(1)
              ELSE Returns(0)

\* the comparison of the segments at segment_ptr; an index past the end of
\* either list raises IndexError
CompareSegmentsAt(f1_segments, f2_segments, segment_ptr) ==
    IF segment_ptr >= Len(f1_segments) \/ segment_ptr >= Len(f2_segments)
    THEN Raises(IndexError)
    ELSE IF SegLess(f1_segments[segment_ptr + 1], f2_segments[segment_ptr + 1])
         THEN Returns(1)
         ELSE IF SegLess(f2_segments[segment_ptr + 1], f1_segments[segment_ptr + 1])
              THEN Returns(-1)
              ELSE Returns(0)

\* CompareFilenames without the rule for paths of which one ends at
\* segment_ptr: the segments are compared whatever the segment counts
CompareFilenames_NoFileRule(file1, file2) ==
    LET segment_ptr == MatchingSegments(file1, file2, 0)
    IN  IF Len(file1) = Len(file2) /\ segment_ptr = Len(file1)
        THEN Returns(0)
        ELSE CompareSegmentsAt(file1, file2, segment_ptr)

CompareFilenames(file1, file2) ==
    LET segment_ptr == MatchingSegments(file1, file2, 0)
    IN  IF Len(file1) = Len(file2)
        THEN IF segment_ptr = Len(file1)
             THEN Returns(0)
             ELSE CompareSegmentsAt(file1, file2, segment_ptr)
        ELSE IF segment_ptr + 1 = Len(file1) \/ segment_ptr + 1 = Len(file2)
             THEN Returns(Len(file2) - Len(file1))
             ELSE CompareSegmentsAt(file1, file2, segment_ptr)

RECURSIVE MapFileToArchiveFrom(_, _, _)
\* the while loop of MapFileToArchive, from num_archives down; IndexError
\* when CompareFilenames raises it
MapFileToArchiveFrom(zfn, file_path, num_archives) ==
    IF num_archives = 0
    THEN None
    ELSE LET target == zfn[num_archives]
         IN  IF Len(target) > 1
             THEN LET c == CompareFilenames(target[2], file_path)
                  IN  IF c.raised # None
                      THEN c.raised
                      ELSE IF c.value >= 0
                           THEN target[1]
                           ELSE MapFileToArchiveFrom(zfn, file_path, num_archives - 1)
             ELSE MapFileToArchiveFrom(zfn, file_path, num_archives - 1)

MapFileToArchive(zfn, file_path) == MapFileToArchiveFrom(zfn, file_path, Len(zfn))

(***************************************************************************)
(* LoadZipFile, GetFromStore                                               *)
(***************************************************************************)
\* LoadZipFile: the archive from zipfile_cache, or opened and cached; None
\* when zipfile.ZipFile raises IOError (openFails): the error is logged and
\* nothing is cached
LoadZipFile(zipfilename, zcache, openFails) ==
    IF zipfilename \in zcache
    THEN [zip_archive |-> zipfilename, zipfile_cache |-> zcache, logged |-> FALSE]
    ELSE IF openFails
         THEN [zip_archive |-> None, zipfile_cache |-> zcache, logged |-> TRUE]
         ELSE [zip_archive |-> zipfilename,
               zipfile_cache |-> zcache \cup {zipfilename}, logged |-> FALSE]

\* zip_archive.read(file_path); KeyError is caught and leaves resp_data None
ZipRead(zip_archive, file_path) ==
    IF file_path \in DOMAIN ZipContents[zip_archive]
    THEN ZipContents[zip_archive][file_path]
    ELSE None

\* the archive names GetFromStore tries, in order: the one the index names
\* (if any), then file_itr from the first entry on
ArchiveNames(zfn, file_path) ==
    LET archive_name == MapFileToArchive(zfn, file_path)
        all == [i \in 1..Len(zfn) |-> zfn[i][1]]
    IN  IF archive_name = None THEN all ELSE <<archive_name>> \o all

RECURSIVE GetFromStoreLoop(_, _, _, _, _, _)
\* the while loop of GetFromStore; fails is the set of positions of names
\* at which an open of the archive raises IOError
GetFromStoreLoop(names, i, file_path, zcache, fails, lg) ==
    IF i > Len(names)
    THEN [resp_data |-> None, zipfile_cache |-> zcache, logged |-> lg]
    ELSE LET l == LoadZipFile(names[i], zcache, i \in fails)
             d == IF l.zip_archive = None THEN None
                  ELSE ZipRead(l.zip_archive, file_path)
         IN  IF d # None
             THEN [resp_data |-> d, zipfile_cache |-> l.zipfile_cache,
                   logged |-> lg \/ l.logged]
             ELSE GetFromStoreLoop(names, i + 1, file_path, l.zipfile_cache,
                                   fails, lg \/ l.logged)

GetFromStore(zfn, file_path, zcache, fails) ==
    IF MapFileToArchive(zfn, file_path) = IndexError
    THEN [resp_data |-> IndexError, zipfile_cache |-> zcache, logged |-> FALSE]
    ELSE GetFromStoreLoop(ArchiveNames(zfn, file_path), 1, file_path, zcache,
                          fails, FALSE)

(***************************************************************************)
(* The cache client                                                        *)
(***************************************************************************)
\* memcache.get(key)
MemcacheGet(mc, key) == IF key \in DOMAIN mc THEN mc[key] ELSE None

\* memcache.add(key, value): sets the key only when it is absent
MemcacheAdd(mc, key, value) ==
    IF key \in DOMAIN mc THEN mc ELSE (key :> value) @@ mc

\* memcache.replace(key, value): sets the key only when it is present
MemcacheReplace(mc, key, value) ==
    IF key \in DOMAIN mc THEN [mc EXCEPT ![key] = value] ELSE mc

GetFromCache(mc, filename) == MemcacheGet(mc, <<CACHE_PREFIX, filename>>)

GetFromNegativeCache(mc, filename) == MemcacheGet(mc, <<NEG_CACHE_PREFIX, filename>>)

\* StoreOrUpdateInCache that only adds, and leaves a present key as it is
StoreOrUpdateInCache_AddOnly(mc, filename, data) ==
    IF DataSize(data) > MaxItemSize
    THEN mc
    ELSE IF <<CACHE_PREFIX, filename>> \in DOMAIN mc
         THEN mc
         ELSE (<<CACHE_PREFIX, filename>> :> data) @@ mc

\* StoreOrUpdateInCache: add, and replace when add returns False; memcache
\* raises ValueError for a value over its item size, which is caught and
\* leaves the cache as it was
StoreOrUpdateInCache(mc, filename, data) ==
    IF DataSize(data) > MaxItemSize
    THEN mc
    ELSE IF <<CACHE_PREFIX, filename>> \in DOMAIN mc
         THEN MemcacheReplace(mc, <<CACHE_PREFIX, filename>>, data)
         ELSE MemcacheAdd(mc, <<CACHE_PREFIX, filename>>, data)

\* StoreInNegativeCache: memcache.add of the sentinel -1
StoreInNegativeCache(mc, filename) ==
    MemcacheAdd(mc, <<NEG_CACHE_PREFIX, filename>>, "-1")

(***************************************************************************)
(* Responses                                                               *)
(***************************************************************************)
\* a response: status, body written, and the headers (None: header absent)
Response(status, body, content_type, cache_control, set_cookie, vary, location) ==
    [status |-> status, body |-> body, content_type |-> content_type,
     cache_control |-> cache_control, set_cookie |-> set_cookie,
     vary |-> vary, location |-> location]

\* no Location header
NoLocation == [path |-> <<>>, query |-> ""]

NoResponse == Response("none", None, None, <<>>, None, None, NoLocation)

\* self.redirect(uri, False): 302 with Location
Redirect(uri) == Response("302", None, None, <<>>, None, None, uri)

\* an exception that leaves TrueGet: the transport answers, not the handler
Uncaught(e) == Response(e, None, None, <<>>, None, None, NoLocation)

Write404Error ==
    Response("404", "Error 404 File not found", None, <<>>, None, None, NoLocation)

\* SetCachingHeaders that leaves must-revalidate out
SetCachingHeaders_NoRevalidate(revalidate, max_age, public) ==
    (IF public THEN << <<"public">> >> ELSE <<>>) \o << <<"max-age", max_age>> >>

\* SetCachingHeaders: the list joined into the Cache-Control header
SetCachingHeaders(revalidate, max_age, public) ==
    (IF public THEN << <<"public">> >> ELSE <<>>)
    \o << <<"max-age", max_age>> >>
    \o (IF revalidate THEN << <<"must-revalidate">> >> ELSE <<>>)

\* FoundClean that serves a name without content type as
\* application/octet-stream, as it does a .psd
FoundClean_OctetFallback(name, langName, resetLangCookie, data, max_age, public) ==
    Response("200", data,
             IF GuessType(name) # None THEN GuessType(name)
             ELSE IF name = <<"favicon.ico">> THEN "image/x-icon"
             ELSE "application/octet-stream",
             (IF public THEN << <<"public">> >> ELSE <<>>)
                 \o << <<"max-age", max_age>> >>
                 \o (IF HasHtml(name) THEN << <<"must-revalidate">> >> ELSE <<>>),
             IF resetLangCookie THEN langName ELSE None,
             IF HasHtml(name) THEN "Cookie" ELSE None,
             NoLocation)

\* CreateResponse from 'found content from cache or store' on: the headers
\* and the body written for resp_data (the cookie's expiry date is left out)
FoundClean(name, langName, resetLangCookie, data, max_age, public) ==
    LET set_cookie == IF resetLangCookie THEN langName ELSE None
        mustRevalidate == HasHtml(name)
        vary == IF HasHtml(name) THEN "Cookie" ELSE None
        content_type == GuessType(name)
        cc == SetCachingHeaders(mustRevalidate, max_age, public)
    IN  IF content_type # None
        THEN Response("200", data, content_type, cc, set_cookie, vary, NoLocation)
        ELSE IF name = <<"favicon.ico">>
             THEN Response("200", data, "image/x-icon", cc, set_cookie, vary, NoLocation)
             ELSE IF EndsWithPsd(name)
                  THEN Response("200", data, "application/octet-stream", cc,
                                set_cookie, vary, NoLocation)
                  ELSE Response("200", None, None, <<>>, set_cookie, vary, NoLocation)

(***************************************************************************)
(* TrueGet up to its first call of CreateResponse                          *)
(***************************************************************************)
NoCookie == "KeyError"

\* PreprocessUrl that takes only a trailing '/' for a directory
PreprocessUrl_SlashOnly(name) ==
    IF name = <<"">>
    THEN [uri |-> <<"index.html">>, name |-> <<>>]
    ELSE IF name[Len(name)] = ""
         THEN [uri |-> SubSeq(name, 1, Len(name) - 1) \o <<"index.html">>,
               name |-> <<>>]
         ELSE [uri |-> <<>>, name |-> name]

\* PreprocessUrl: the uri redirected to (the path after its leading '/', <<>>
\* when there is no redirect) and the name to go on with (<<>> for False)
PreprocessUrl(name) ==
    LET last == name[Len(name)]
        ends_in_slash == Len(name) > 1 /\ last = ""
        name2 == IF ~ends_in_slash /\ name # <<"">> /\ ~HasDot(last)
                 THEN name \o <<"">>
                 ELSE name
    IN  IF name2 = <<"">>
        THEN [uri |-> <<"index.html">>, name |-> <<>>]
        ELSE IF name2[Len(name2)] = ""
             THEN [uri |-> SubSeq(name2, 1, Len(name2) - 1) \o <<"index.html">>,
                   name |-> <<>>]
             ELSE [uri |-> <<>>, name |-> name2]

isCleanUrl(name, langName, isValidIntl) ==
    \/ langName = "en"
    \/ isValidIntl
    \/ ~HasHtml(name)
    \/ (~isValidIntl /\ langName = "")

\* RedirToIntl: '/' intlString langName '/' name '?' query_string
RedirToIntl(name, langName, query_string) ==
    [path |-> <<"intl", langName>> \o name, query |-> query_string]

\* IntlPrep that does not ask for the cookie to be reset when the url's
\* language replaces the cookie's
IntlPrep_NoReset(name, langName, resetLangCookie) ==
    LET isIntl == Len(name) > 1 /\ name[1] = "intl"
        isValidIntl == isIntl /\ name[2] \in validLangs
        differs == isValidIntl /\ langName # name[2]
    IN  [isIntl |-> isIntl, isValidIntl |-> isValidIntl,
         langName |-> IF differs THEN name[2] ELSE langName,
         resetLangCookie |-> resetLangCookie]

\* IntlPrep that takes every intl/<lang>/ url for a valid intl url
IntlPrep_AnyLang(name, langName, resetLangCookie) ==
    LET isIntl == Len(name) > 1 /\ name[1] = "intl"
        isValidIntl == isIntl
        differs == isValidIntl /\ langName # name[2]
    IN  [isIntl |-> isIntl, isValidIntl |-> isValidIntl,
         langName |-> IF differs THEN name[2] ELSE langName,
         resetLangCookie |-> resetLangCookie \/ differs]

\* TrueGet, 'Do some prep for handling intl requests': the url's language
\* replaces the cookie's when they differ, and the cookie is then reset
IntlPrep(name, langName, resetLangCookie) ==
    LET isIntl == Len(name) > 1 /\ name[1] = "intl"
        isValidIntl == isIntl /\ name[2] \in validLangs
        differs == isValidIntl /\ langName # name[2]
    IN  [isIntl |-> isIntl, isValidIntl |-> isValidIntl,
         langName |-> IF differs THEN name[2] ELSE langName,
         resetLangCookie |-> resetLangCookie \/ differs]

\* TrueGet from its start to the branch it takes: a redirect, an exception,
\* or the arguments of the first CreateResponse and the contentUri of a retry
\* (contentUri = 0 where the url is no valid intl url)
TrueGet(reqUri, cookie, query_string) ==
    LET pre == PreprocessUrl(reqUri)
        name == pre.name
        i == IntlPrep(name, IF cookie = NoCookie THEN "en" ELSE cookie,
                      cookie = NoCookie)
        clean == isCleanUrl(name, i.langName, i.isValidIntl)
    IN  IF pre.uri # <<>>
        THEN [branch |-> "preprocess",
              resp |-> Redirect([path |-> pre.uri, query |-> ""])]
        ELSE IF i.isValidIntl /\ Len(name) < 3
             THEN [branch |-> "raise", resp |-> Uncaught(IndexError)]
             ELSE IF clean \/ i.isIntl
                  THEN [branch |-> IF clean THEN "clean" ELSE "invalid intl",
                        args |-> [branch |-> IF clean THEN "clean" ELSE "invalid intl",
                                  name |-> name, langName |-> i.langName,
                                  isValidIntl |-> i.isValidIntl,
                                  resetLangCookie |-> i.resetLangCookie,
                                  contentUri |-> IF i.isValidIntl
                                                 THEN SubSeq(name, 3, Len(name))
                                                 ELSE <<"0">>]]
                  ELSE [branch |-> "RedirToIntl",
                        resp |-> Redirect(RedirToIntl(name, i.langName, query_string))]

(***************************************************************************)
(* The requests of the model                                               *)
(***************************************************************************)
ReqPaths ==
    { <<"">>, <<"x">>, <<"x", "">>,
      <<"a.html">>, <<"big.png">>, <<"c.xyz">>, <<"d.psd">>,
      <<"favicon.ico">>, <<"nope.png">>,
      <<"intl", "de", "a.html">>, <<"intl", "fr", "a.html">>,
      <<"intl", "fr", "e.html.xyz">>,
      <<"intl", "de", "intl", "fr", "a.html">>,
      <<"intl", "de", "d.psd", "x", "b.png">>,
      <<"intl", "xx", "a.html">>, <<"intl", "xx">>,
      <<"d.psd", "x", "b.png">> }

\* the value of the android_developer_pref_lang cookie, NoCookie when the
\* request has none
Cookies == {NoCookie, "en", "de", "xx", ""}

QueryStrings == {"", "hl=1"}

\* the requests of the model: a path, the cookie sent with it and the query
\* string; the paths sent with a query string too
QueryPaths == {<<"a.html">>, <<"x">>}

Requests ==
    [path : ReqPaths, cookie : Cookies, query : {""}]
    \cup [path : QueryPaths, cookie : Cookies, query : QueryStrings]

\* the requests sent to handlers that run concurrently
RaceRequests ==
    [path : {<<"a.html">>, <<"big.png">>, <<"c.xyz">>, <<"nope.png">>,
             <<"intl", "fr", "a.html">>},
     cookie : {"en"}, query : {""}]

\* the create_handler calls of the model: zip_files, and the keyword
\* arguments given (max_age, public)
Deployments ==
    { [zip_files |-> << [name |-> "z1.zip"], [name |-> "z2.zip"] >>,
       kwargs |-> << >>],
      [zip_files |-> << [list |-> <<"z1.zip", <<"a.html">> >>],
                        [list |-> <<"z2.zip", <<"d.psd">> >>] >>,
       kwargs |-> ("max_age" :> 300) @@ ("public" :> FALSE)],
      [zip_files |-> << [list |-> <<"z1.zip", <<"a.html">> >>],
                        [name |-> "z2.zip"] >>,
       kwargs |-> ("public" :> TRUE)] }

\* the state after the import of the module, before any request
Imported ==
    /\ MAX_AGE = 600
    /\ PUBLIC = TRUE
    /\ memcache = << >>
    /\ zipfile_cache = {}
    /\ logged = FALSE
    /\ pc = [h \in Handlers |-> "idle"]
    /\ req = [h \in Handlers |-> [path |-> <<>>, cookie |-> NoCookie, query |-> ""]]
    /\ loc = [h \in Handlers |-> <<>>]
    /\ resp_data = [h \in Handlers |-> None]
    /\ resp = [h \in Handlers |-> NoResponse]
    /\ calls = [h \in Handlers |-> <<>>]
    /\ rejected = {}
    /\ earlier = [h \in Handlers |-> {}]

\* the state after create_handler(d.zip_files, **d.kwargs)
Deployed(d) ==
    /\ zipfilenames = create_handler(d.zip_files)
    /\ tunables = d.kwargs
    /\ Imported

\* no call of a path function on its own
NoCall == [fn |-> "none"]

NoPureCall ==
    /\ call = NoCall
    /\ returned = FALSE
    /\ result = Returns(0)

\* one handler serves one request after the other
Init ==
    /\ \E d \in Deployments : Deployed(d)
    /\ NoPureCall
    /\ workers = {"h1"}
    /\ traffic = Requests
    /\ left = MaxRequests

\* two handlers serve requests concurrently
InitRace ==
    /\ \E d \in Deployments : Deployed(d)
    /\ NoPureCall
    /\ workers = Handlers
    /\ traffic = RaceRequests
    /\ left = MaxRaceRequests

\* HandlerWrapper.get: TrueGet(name) up to the first memcache call
Get(h) ==
    /\ h \in workers
    /\ pc[h] \in {"idle", "done"}
    /\ left > 0
    /\ \E r \in traffic :
         LET t == TrueGet(r.path, r.cookie, r.query)
         IN  /\ req' = [req EXCEPT ![h] = r]
             /\ IF t.branch \in {"clean", "invalid intl"}
                THEN /\ pc' = [pc EXCEPT ![h] = "GetFromCache"]
                     /\ loc' = [loc EXCEPT ![h] = <<t.args>>]
                     /\ resp' = [resp EXCEPT ![h] = NoResponse]
                ELSE /\ pc' = [pc EXCEPT ![h] = "done"]
                     /\ loc' = [loc EXCEPT ![h] = <<>>]
                     /\ resp' = [resp EXCEPT ![h] = t.resp]
    /\ left' = left - 1
    /\ resp_data' = [resp_data EXCEPT ![h] = None]
    /\ calls' = [calls EXCEPT ![h] = <<>>]
    /\ earlier' = [earlier EXCEPT ![h] = rejected]
    /\ UNCHANGED <<config, pure, memcache, zipfile_cache, logged, rejected>>

\* the arguments of the CreateResponse call handler h is in
Args(h) == loc[h][1]

\* what is remembered of a CreateResponse call: its arguments, whether the
\* negative cache held its name when it began, whether it called GetFromStore
Call(a, mc) ==
    [name |-> a.name, isValidIntl |-> a.isValidIntl,
     negative |-> GetFromNegativeCache(mc, a.name) # None, store |-> FALSE]

\* CreateResponse: resp_data = self.GetFromCache(name)
DoGetFromCache(h) ==
    /\ pc[h] = "GetFromCache"
    /\ LET a == Args(h)
           d == GetFromCache(memcache, a.name)
       IN  /\ calls' = [calls EXCEPT ![h] = Append(@, Call(a, memcache))]
           /\ IF d = None
              THEN /\ pc' = [pc EXCEPT ![h] = "GetFromNegativeCache"]
                   /\ UNCHANGED resp
              ELSE /\ pc' = [pc EXCEPT ![h] = "done"]
                   /\ resp' = [resp EXCEPT ![h] =
                          FoundClean(a.name, a.langName, a.resetLangCookie, d,
                                     MAX_AGE, PUBLIC)]
    /\ UNCHANGED <<config, pure, memcache, zipfile_cache, logged, req, loc, resp_data, left, rejected, earlier>>

\* CreateResponse: resp_data = self.GetFromNegativeCache(name)
DoGetFromNegativeCache(h) ==
    /\ pc[h] = "GetFromNegativeCache"
    /\ IF GetFromNegativeCache(memcache, Args(h).name) = None
       THEN /\ pc' = [pc EXCEPT ![h] = "GetFromStore"]
            /\ UNCHANGED resp
       ELSE /\ pc' = [pc EXCEPT ![h] = "done"]
            /\ resp' = [resp EXCEPT ![h] = Write404Error]
    /\ UNCHANGED <<config, pure, memcache, zipfile_cache, logged, req, loc, resp_data, calls, left, rejected, earlier>>

\* CreateResponse: resp_data = self.GetFromStore(name), and the branch on it;
\* a valid intl miss returns False and TrueGet calls CreateResponse again
DoGetFromStore(h) ==
    /\ pc[h] = "GetFromStore"
    /\ \E fails \in SUBSET (1..(Len(zipfilenames) + 1)) :
         LET a == Args(h)
             g == GetFromStore(zipfilenames, a.name, zipfile_cache, fails)
         IN  /\ zipfile_cache' = g.zipfile_cache
             /\ logged' = (logged \/ g.logged)
             /\ resp_data' = [resp_data EXCEPT ![h] = g.resp_data]
             /\ calls' = [calls EXCEPT ![h][Len(calls[h])].store = TRUE]
             /\ IF g.resp_data = IndexError
                THEN /\ pc' = [pc EXCEPT ![h] = "done"]
                     /\ resp' = [resp EXCEPT ![h] = Uncaught(IndexError)]
                     /\ UNCHANGED loc
                ELSE IF g.resp_data # None
                THEN /\ pc' = [pc EXCEPT ![h] = "StoreOrUpdateInCache"]
                     /\ UNCHANGED <<resp, loc>>
                ELSE IF a.isValidIntl
                THEN /\ pc' = [pc EXCEPT ![h] = "GetFromCache"]
                     /\ loc' = [loc EXCEPT ![h] =
                            << [a EXCEPT !.name = a.contentUri,
                                         !.isValidIntl = FALSE,
                                         !.branch = "retry"] >>]
                     /\ UNCHANGED resp
                ELSE /\ pc' = [pc EXCEPT ![h] = "StoreInNegativeCache"]
                     /\ UNCHANGED <<resp, loc>>
    /\ UNCHANGED <<config, pure, memcache, req, left, rejected, earlier>>

\* DoStoreOrUpdateInCache that stores under the path of the request, not
\* under the name CreateResponse was called with
DoStoreOrUpdateInCache_RequestPath(h) ==
    /\ pc[h] = "StoreOrUpdateInCache"
    /\ LET a == Args(h)
       IN  /\ memcache' = StoreOrUpdateInCache(memcache, req[h].path, resp_data[h])
           /\ rejected' = IF DataSize(resp_data[h]) > MaxItemSize
                          THEN rejected \cup {<<a.name, resp_data[h]>>}
                          ELSE rejected
           /\ resp' = [resp EXCEPT ![h] =
                  FoundClean(a.name, a.langName, a.resetLangCookie, resp_data[h],
                             MAX_AGE, PUBLIC)]
    /\ pc' = [pc EXCEPT ![h] = "done"]
    /\ UNCHANGED <<config, pure, zipfile_cache, logged, req, loc, resp_data, calls, left, earlier>>

\* CreateResponse: self.StoreOrUpdateInCache(name, resp_data), then the
\* response for the content found
DoStoreOrUpdateInCache(h) ==
    /\ pc[h] = "StoreOrUpdateInCache"
    /\ LET a == Args(h)
       IN  /\ memcache' = StoreOrUpdateInCache(memcache, a.name, resp_data[h])
           /\ rejected' = IF DataSize(resp_data[h]) > MaxItemSize
                          THEN rejected \cup {<<a.name, resp_data[h]>>}
                          ELSE rejected
           /\ resp' = [resp EXCEPT ![h] =
                  FoundClean(a.name, a.langName, a.resetLangCookie, resp_data[h],
                             MAX_AGE, PUBLIC)]
    /\ pc' = [pc EXCEPT ![h] = "done"]
    /\ UNCHANGED <<config, pure, zipfile_cache, logged, req, loc, resp_data, calls, left, earlier>>

\* CreateResponse: self.StoreInNegativeCache(name); self.Write404Error()
DoStoreInNegativeCache(h) ==
    /\ pc[h] = "StoreInNegativeCache"
    /\ memcache' = StoreInNegativeCache(memcache, Args(h).name)
    /\ resp' = [resp EXCEPT ![h] = Write404Error]
    /\ pc' = [pc EXCEPT ![h] = "done"]
    /\ UNCHANGED <<config, pure, zipfile_cache, logged, req, loc, resp_data, calls, left, rejected, earlier>>

Next ==
    \E h \in Handlers :
        \/ Get(h)
        \/ DoGetFromCache(h)
        \/ DoGetFromNegativeCache(h)
        \/ DoGetFromStore(h)
        \/ DoStoreOrUpdateInCache(h)
        \/ DoStoreInNegativeCache(h)

Spec == Init /\ [][Next]_vars

SpecRace == InitRace /\ [][Next]_vars

(***************************************************************************)
(* CompareFilenames and MapFileToArchive called on their own               *)
(***************************************************************************)
\* the segment texts of the paths compared: an uppercase and a lowercase
\* spelling, a file name with an extension, a directory name
PathSegs == {"Apple", "a.html", "apple", "x"}

Paths == UNION {[1..n -> PathSegs] : n \in 1..MaxSegments}

\* the first paths an entry of the ArchiveSet may carry
FirstPaths == {<<"Apple">>, <<"a.html">>, <<"x">>, <<"x", "apple">>}

\* the archive of each position of the ArchiveSet
ArchiveFiles == <<"z1.zip", "z2.zip", "z3.zip", "z4.zip", "z5.zip">>

\* self.zipfilenames: every entry is [archive] or [archive, first path]
ArchiveSets ==
    UNION {{z \in [1..n -> {<<ArchiveFiles[i]>> : i \in 1..n}
                           \cup {<<ArchiveFiles[i], f>> :
                                    i \in 1..n, f \in FirstPaths}] :
              \A i \in 1..n : z[i][1] = ArchiveFiles[i]} :
           n \in 1..MaxArchives}

CompareCalls ==
    {[fn |-> "CompareFilenames", file1 |-> a, file2 |-> b] : a, b \in Paths}

MapCalls == {[fn |-> "MapFileToArchive", file_path |-> p] : p \in Paths}

\* a handler class that serves no request, and one call to make
InitPure ==
    /\ Imported
    /\ tunables = << >>
    /\ workers = {}
    /\ traffic = {}
    /\ left = 0
    /\ returned = FALSE
    /\ result = Returns(0)
    /\ \/ call \in CompareCalls /\ zipfilenames = << <<"z1.zip">> >>
       \/ call \in MapCalls /\ zipfilenames \in ArchiveSets

\* self.CompareFilenames(file1, file2)
DoCompareFilenames ==
    /\ call.fn = "CompareFilenames"
    /\ ~returned
    /\ result' = CompareFilenames(call.file1, call.file2)
    /\ returned' = TRUE
    /\ UNCHANGED <<config, memcache, zipfile_cache, logged, pc, req, loc,
                   resp_data, resp, calls, left, rejected, earlier, call>>

\* self.MapFileToArchive(file_path)
DoMapFileToArchive ==
    /\ call.fn = "MapFileToArchive"
    /\ ~returned
    /\ LET m == MapFileToArchive(zipfilenames, call.file_path)
       IN  result' = IF m = IndexError THEN Raises(IndexError)
                                       ELSE [raised |-> None, value |-> m]
    /\ returned' = TRUE
    /\ UNCHANGED <<config, memcache, zipfile_cache, logged, pc, req, loc,
                   resp_data, resp, calls, left, rejected, earlier, call>>

NextPure == DoCompareFilenames \/ DoMapFileToArchive

SpecPure == InitPure /\ [][NextPure]_vars

(***************************************************************************)
(* Vocabulary of the properties                                            *)
(***************************************************************************)
\* the archives of the ArchiveSet that hold path p, and the bytes they hold
ArchivesWith(p) ==
    {zipfilenames[i][1] : i \in {j \in 1..Len(zipfilenames) :
                                    p \in DOMAIN ZipContents[zipfilenames[j][1]]}}

ContentsOf(p) == {ZipContents[z][p] : z \in ArchivesWith(p)}

\* the paths with a positive entry, and with a negative entry, in memcache
PositivePaths == {k[2] : k \in {x \in DOMAIN memcache : x[1] = CACHE_PREFIX}}

NegativePaths == {k[2] : k \in {x \in DOMAIN memcache : x[1] = NEG_CACHE_PREFIX}}

\* path is intl/<lang>/<rest> with a supported lang
IsValidIntlPath(path) ==
    Len(path) >= 3 /\ path[1] = "intl" /\ path[2] \in validLangs

Rest(path) == SubSeq(path, 3, Len(path))

\* handler h has built the response of its request
Done(h) == pc[h] = "done"

\* the CreateResponse call handler h made last
LastCall(h) == calls[h][Len(calls[h])]

\* CreateResponse has a Content-Type for name
HasContentType(name) ==
    GuessType(name) # None \/ name = <<"favicon.ico">> \/ EndsWithPsd(name)

(***************************************************************************)
(* C1-C5                                                                   *)
(***************************************************************************)
\* C1: in every reachable state no path has both a positive-cache entry
\* (cache://p) and a negative-cache entry (noncache://p).
C1_CachesExclusive == PositivePaths \cap NegativePaths = {}

\* C2: a request for a valid intl path intl/<lang>/<rest> that is in no
\* archive while <rest> is in some archive is answered from <rest> by a second
\* CreateResponse call with isValidIntl = false, and not by a 404, whatever
\* requests came before.  Stated here for the runs in which no archive open
\* has failed, and without asking for a body where <rest> has no content type.
C2_LocaleFallback ==
    \A h \in Handlers :
        ( /\ Done(h)
          /\ ~logged
          /\ IsValidIntlPath(req[h].path)
          /\ ArchivesWith(req[h].path) = {}
          /\ ArchivesWith(Rest(req[h].path)) # {} )
        => /\ resp[h].status = "200"
           /\ Len(calls[h]) = 2
           /\ calls[h][2].name = Rest(req[h].path)
           /\ ~calls[h][2].isValidIntl
           /\ resp[h].body # None => resp[h].body \in ContentsOf(Rest(req[h].path))

\* C3: a CreateResponse call for a path that has a negative-cache entry when
\* the call begins never calls GetFromStore and ends the request with a 404.
C3_NegativeShortCircuit ==
    \A h \in Handlers : \A i \in 1..Len(calls[h]) :
        calls[h][i].negative
        => /\ ~calls[h][i].store
           /\ Done(h) => (i = Len(calls[h]) /\ resp[h].status = "404")

\* C4 as claimed: StoreOrUpdateInCache(p, bytes) that succeeds leaves
\* GetFromCache(p) = bytes, and a CreateResponse that finds bytes for p in the
\* cache serves them without calling GetFromStore.
C4_RoundTripServes ==
    [][\A h \in Handlers :
          /\ ( /\ pc[h] = "StoreOrUpdateInCache"
               /\ pc'[h] = "done"
               /\ DataSize(resp_data[h]) <= MaxItemSize )
             => GetFromCache(memcache', Args(h).name) = resp_data[h]
          /\ ( /\ pc[h] = "GetFromCache"
               /\ pc'[h] # pc[h]
               /\ GetFromCache(memcache, Args(h).name) # None )
             => /\ pc'[h] = "done"
                /\ resp'[h].status = "200"
                /\ resp'[h].body = GetFromCache(memcache, Args(h).name)
                /\ ~calls'[h][Len(calls'[h])].store]_vars

\* C4 amended: StoreOrUpdateInCache(p, bytes) that succeeds leaves
\* GetFromCache(p) = bytes, and a CreateResponse that finds bytes for p in the
\* cache ends the request without calling GetFromStore, with those bytes as
\* the body when p has a content type and with no body when it has none.
C4_RoundTrip ==
    [][\A h \in Handlers :
          /\ ( /\ pc[h] = "StoreOrUpdateInCache"
               /\ pc'[h] = "done"
               /\ DataSize(resp_data[h]) <= MaxItemSize )
             => GetFromCache(memcache', Args(h).name) = resp_data[h]
          /\ ( /\ pc[h] = "GetFromCache"
               /\ pc'[h] # pc[h]
               /\ GetFromCache(memcache, Args(h).name) # None )
             => /\ pc'[h] = "done"
                /\ resp'[h].status = "200"
                /\ resp'[h].body = IF HasContentType(Args(h).name)
                                   THEN GetFromCache(memcache, Args(h).name)
                                   ELSE None
                /\ ~calls'[h][Len(calls'[h])].store]_vars

\* C4 witness: a request was served its bytes from the cache, which a
\* StoreOrUpdateInCache of an earlier request had put there
C4_Witness ==
    \E h \in Handlers :
        /\ Done(h)
        /\ calls[h] # <<>>
        /\ ~LastCall(h).store
        /\ resp[h].status = "200"
        /\ resp[h].body # None
        /\ GetFromCache(memcache, LastCall(h).name) = resp[h].body

\* C5: every request ends with a redirect, a 404 or an emission; no
\* exception leaves TrueGet.
C5_NoUncaughtError ==
    \A h \in Handlers : Done(h) => resp[h].status \in {"302", "404", "200"}

(***************************************************************************)
(* C6-C10                                                                  *)
(***************************************************************************)
\* the request's cookie names another language than its valid intl url
UrlLangDiffers(r) == IsValidIntlPath(r.path) /\ r.cookie # r.path[2]

\* C6 as claimed: every request to a valid intl path whose language differs
\* from the cookie's is answered with a Set-Cookie for the url's language.
C6_CookieReset ==
    \A h \in Handlers :
        (Done(h) /\ UrlLangDiffers(req[h]))
        => resp[h].set_cookie = req[h].path[2]

\* C6 amended: every request to a valid intl path whose language differs
\* from the cookie's, and for which content is found (at the url or at its
\* default-language fallback), is answered with a Set-Cookie for the url's
\* language.
C6_CookieResetWhenFound ==
    \A h \in Handlers :
        (Done(h) /\ UrlLangDiffers(req[h]) /\ resp[h].status = "200")
        => resp[h].set_cookie = req[h].path[2]

\* C6 witness: a request with cookie en for a valid intl url of another
\* language was served with the cookie reset
C6_Witness ==
    \E h \in Handlers :
        /\ Done(h)
        /\ UrlLangDiffers(req[h])
        /\ req[h].cookie = "en"
        /\ resp[h].status = "200"
        /\ resp[h].set_cookie = req[h].path[2]

\* the max-age and the public flag create_handler was called with, 600 and
\* public when they were left out
ConfiguredMaxAge == IF "max_age" \in DOMAIN tunables THEN tunables["max_age"] ELSE 600

ConfiguredPublic == IF "public" \in DOMAIN tunables THEN tunables["public"] ELSE TRUE

\* the directives of a Cache-Control header
Directives(cache_control) == {cache_control[i] : i \in 1..Len(cache_control)}

\* C7: for a handler built by create_handler(zip_files, max_age=N, public=P)
\* the Cache-Control of every served response has max-age=N, and public
\* exactly when P is true; 600 and public when the arguments are omitted.
C7_TunablesTakeEffect ==
    \A h \in Handlers :
        (Done(h) /\ resp[h].cache_control # <<>>)
        => /\ <<"max-age", ConfiguredMaxAge>> \in Directives(resp[h].cache_control)
           /\ <<"public">> \in Directives(resp[h].cache_control) <=> ConfiguredPublic

\* C8: a response that emits content for a path containing '.html' carries
\* Vary: Cookie and must-revalidate in Cache-Control; a response for a path
\* without '.html' carries no Vary header.
C8_HtmlVaryRevalidate ==
    \A h \in Handlers :
        Done(h)
        => /\ (HasHtml(req[h].path) /\ resp[h].status = "200" /\ resp[h].body # None)
              => /\ resp[h].vary = "Cookie"
                 /\ <<"must-revalidate">> \in Directives(resp[h].cache_control)
           /\ ~HasHtml(req[h].path) => resp[h].vary = None

\* C8 witness: content was emitted for an HTML path, with Vary: Cookie
C8_Witness ==
    \E h \in Handlers :
        /\ Done(h)
        /\ HasHtml(req[h].path)
        /\ resp[h].status = "200"
        /\ resp[h].body # None
        /\ resp[h].vary = "Cookie"

\* content was found for the request of h, under a name without content type
FoundWithoutType(h) ==
    /\ Done(h)
    /\ resp[h].status = "200"
    /\ calls[h] # <<>>
    /\ ~HasContentType(LastCall(h).name)

\* C9 as claimed: content found for a path without content type is answered
\* with no body and no headers at all.
C9_NoContentNoHeaders ==
    \A h \in Handlers :
        FoundWithoutType(h)
        => /\ resp[h].body = None
           /\ resp[h].content_type = None
           /\ resp[h].cache_control = <<>>
           /\ resp[h].set_cookie = None
           /\ resp[h].vary = None

\* C9 amended: content found for a path without content type is answered
\* with no body, no Content-Type and no Cache-Control; the response still
\* carries Set-Cookie when the request had no cookie or its valid intl url
\* named another language than the cookie, and Vary: Cookie when the path
\* contains '.html'.
C9_NoContentFewHeaders ==
    \A h \in Handlers :
        FoundWithoutType(h)
        => /\ resp[h].body = None
           /\ resp[h].content_type = None
           /\ resp[h].cache_control = <<>>
           /\ resp[h].set_cookie # None
              <=> (req[h].cookie = NoCookie \/ UrlLangDiffers(req[h]))
           /\ resp[h].vary = "Cookie" <=> HasHtml(req[h].path)

\* C9 witness: content without content type was found, and the response has
\* no body but carries Set-Cookie and Vary
C9_Witness ==
    \E h \in Handlers :
        /\ FoundWithoutType(h)
        /\ resp[h].body = None
        /\ resp[h].set_cookie # None
        /\ resp[h].vary = "Cookie"

\* C10: a negative-cache entry for p exists only if p is in no archive of
\* the ArchiveSet, and it was written by a CreateResponse call made with
\* isValidIntl = false.
C10_NegativeCacheSound ==
    [][\A p \in NegativePaths' :
          /\ ArchivesWith(p) = {}
          /\ p \notin NegativePaths
             => \E h \in Handlers :
                   /\ pc[h] = "StoreInNegativeCache"
                   /\ pc'[h] = "done"
                   /\ Args(h).name = p
                   /\ ~Args(h).isValidIntl]_vars

\* path is intl/<lang>[/...] with a lang that is not supported
IsInvalidIntlPath(path) ==
    Len(path) > 1 /\ path[1] = "intl" /\ path[2] \notin validLangs

\* path is empty, ends in '/', or its final segment has no '.'
IsDirectoryPath(path) == ~HasDot(path[Len(path)])

DirTarget(path) ==
    IF path[Len(path)] = ""
    THEN SubSeq(path, 1, Len(path) - 1) \o <<"index.html">>
    ELSE path \o <<"index.html">>

\* C12: a request whose path is empty, ends in '/' or has a final segment
\* without '.' ends with a redirect to '/' + path (+ '/' if missing) +
\* 'index.html'; its handler never is at a step that reads or writes a cache
\* or an archive, and it is not classified (no CreateResponse arguments, no
\* CreateResponse call).
C12_DirectoryRedirect ==
    \A h \in Handlers :
        pc[h] # "idle" /\ IsDirectoryPath(req[h].path)
        => /\ Done(h)
           /\ resp[h] = Redirect([path |-> DirTarget(req[h].path), query |-> ""])
           /\ loc[h] = <<>>
           /\ calls[h] = <<>>

\* a request for a directory named without the trailing '/' was redirected
\* while the caches held entries
C12_Witness ==
    \E h \in Handlers :
        /\ Done(h)
        /\ req[h].path = <<"x">>
        /\ resp[h].status = "302"
        /\ resp[h].location.path = <<"x", "index.html">>
        /\ PositivePaths # {}

\* the request is classified needs_redirect: no intl prefix, a path that
\* contains '.html', a cookie language that is neither empty nor 'en'
NeedsRedirect(r) ==
    /\ ~IsDirectoryPath(r.path)
    /\ ~(Len(r.path) > 1 /\ r.path[1] = "intl")
    /\ HasHtml(r.path)
    /\ r.cookie \notin {NoCookie, "en", ""}

\* C13: a request classified needs_redirect is redirected to
\* /intl/<cookie lang>/<path>?<query>, and the request for that target with
\* the same cookie is classified clean by isCleanUrl and handled through the
\* clean branch as a valid intl url (locale fallback available), never
\* redirected again.
C13_RedirectFollowUp ==
    \A h \in Handlers :
        Done(h) /\ NeedsRedirect(req[h])
        => LET target == <<"intl", req[h].cookie>> \o req[h].path
               next == TrueGet(target, req[h].cookie, req[h].query)
           IN  /\ resp[h].status = "302"
               /\ resp[h].location = [path |-> target, query |-> req[h].query]
               /\ next.branch = "clean"
               /\ next.args.isValidIntl

\* the bytes of name among the (name, data) of puts
BytesOf(puts, name) == {x[2] : x \in {y \in puts : y[1] = name}}

\* C14: when the cache store rejects a put because the bytes exceed its size
\* ceiling, the request still emits the bytes just fetched, no positive or
\* negative entry is written, and a request for the same path that comes in
\* later fetches from the archives again and is served the same bytes.
C14_OversizedPayload ==
    [][\A h \in Handlers :
          /\ /\ pc[h] = "StoreOrUpdateInCache"
             /\ pc'[h] = "done"
             /\ DataSize(resp_data[h]) > MaxItemSize
             => /\ resp'[h].status = "200"
                /\ resp'[h].body = resp_data[h]
                /\ memcache' = memcache
          /\ /\ pc'[h] = "done"
             /\ calls'[h] # <<>>
             /\ BytesOf(earlier'[h], calls'[h][Len(calls'[h])].name) # {}
             => /\ calls'[h][Len(calls'[h])].store
                /\ resp'[h].status = "200"
                /\ resp'[h].body
                      \in BytesOf(earlier'[h], calls'[h][Len(calls'[h])].name)]_vars

\* C15: GetFromStore(p) returns the bytes of p if and only if an archive of
\* the ArchiveSet that can be opened (it is open in zipfile_cache when
\* GetFromStore is over) contains p, whichever archive the index named, and
\* returns none otherwise: archives whose open fails are skipped and the
\* remaining ones are tried.
C15_GetFromStoreComplete ==
    [][\A h \in Handlers :
          pc[h] = "GetFromStore" /\ pc'[h] # "GetFromStore"
          => LET p == Args(h).name
                 opened == ArchivesWith(p) \cap zipfile_cache'
             IN  IF opened # {}
                 THEN resp_data'[h] \in {ZipContents[z][p] : z \in opened}
                 ELSE resp_data'[h] = None]_vars

\* the call of CompareFilenames, and of MapFileToArchive, is over
Compared == returned /\ call.fn = "CompareFilenames"

Mapped == returned /\ call.fn = "MapFileToArchive"

\* C16: CompareFilenames is antisymmetric: for distinct paths a and b,
\* CompareFilenames(a, b) and CompareFilenames(b, a) are non-zero with
\* opposite signs, and CompareFilenames(a, a) = 0.
C16_Antisymmetric ==
    Compared
    => LET back == CompareFilenames(call.file2, call.file1)
       IN  /\ result.raised = None
           /\ back.raised = None
           /\ IF call.file1 = call.file2
              THEN result.value = 0
              ELSE \/ result.value > 0 /\ back.value < 0
                   \/ result.value < 0 /\ back.value > 0

\* C17: CompareFilenames is total: for every pair of paths, of any segment
\* counts and with any shared prefix, it returns a number (first before,
\* second before, equal) and never fails.
C17_Total == Compared => result.raised = None /\ result.value \in Int

\* a = d/f and b = d/s/... with f # s: b lies in a subdirectory of the
\* directory of file a
FileAndSubdir(a, b) ==
    /\ Len(b) > Len(a)
    /\ \A i \in 1..(Len(a) - 1) : a[i] = b[i]
    /\ a[Len(a)] # b[Len(a)]

\* C18: for a directory d, a file name f and a path d/s/... in a
\* subdirectory s # f of d, CompareFilenames ranks d/f before d/s/...: the
\* result is positive with d/f as first argument and negative with it as
\* second, whatever the order of f and s.
C18_FilesBeforeSubdirs ==
    Compared
    => /\ FileAndSubdir(call.file1, call.file2)
          => result.raised = None /\ result.value > 0
       /\ FileAndSubdir(call.file2, call.file1)
          => result.raised = None /\ result.value < 0

\* a file was compared with a path in a subdirectory whose name sorts
\* before the file's name, and was ranked first
C18_Witness ==
    /\ Compared
    /\ call.file1 = <<"x", "apple">>
    /\ call.file2 = <<"x", "Apple", "a.html">>
    /\ result = Returns(1)

\* the first position at which paths a and b differ
FirstDifference(a, b) ==
    CHOOSE i \in 1..Len(a) : a[i] # b[i] /\ \A j \in 1..(i - 1) : a[j] = b[j]

\* C19: of two paths with the same number of segments, the one whose first
\* differing segment is smaller in character-code order (an uppercase letter
\* before the same lowercase letter) is ranked first by CompareFilenames:
\* the result is positive when it is the first argument.
C19_UpperBeforeLower ==
    Compared /\ Len(call.file1) = Len(call.file2) /\ call.file1 # call.file2
    => LET i == FirstDifference(call.file1, call.file2)
       IN  /\ result.raised = None
           /\ SegLess(call.file1[i], call.file2[i]) => result.value > 0
           /\ SegLess(call.file2[i], call.file1[i]) => result.value < 0

\* 'Apple' was compared with 'apple' below a common directory and ranked
\* first
C19_Witness ==
    /\ Compared
    /\ call.file1 = <<"x", "Apple">>
    /\ call.file2 = <<"x", "apple">>
    /\ result = Returns(1)

\* the positions of the ArchiveSet whose entry carries a first path f with
\* CompareFilenames(f, p) >= 0
Qualifying(p) ==
    {i \in 1..Len(zipfilenames) :
        /\ Len(zipfilenames[i]) > 1
        /\ CompareFilenames(zipfilenames[i][2], p).raised = None
        /\ CompareFilenames(zipfilenames[i][2], p).value >= 0}

\* C20: MapFileToArchive(p) returns the archive of the highest-position
\* entry that carries a first path f with CompareFilenames(f, p) >= 0 (so
\* never an entry without a first path), and none when no entry qualifies.
C20_HighestQualifying ==
    Mapped
    => /\ result.raised = None
       /\ result.value =
             IF Qualifying(call.file_path) = {}
             THEN None
             ELSE LET top == CHOOSE i \in Qualifying(call.file_path) :
                                \A j \in Qualifying(call.file_path) : j <= i
                  IN  zipfilenames[top][1]

\* C21: every request invokes CreateResponse at most twice; the second
\* invocation happens only after the first returned False for a valid intl
\* path (it found the path in no cache and in no archive), uses the
\* remainder path with isValidIntl = false, and ends the request with
\* content or a 404, never with another retry or a redirect.
C21_BoundedRetry ==
    \A h \in Handlers :
        /\ Len(calls[h]) <= 2
        /\ Len(calls[h]) = 2
           => /\ IsValidIntlPath(req[h].path)
              /\ calls[h][1].name = req[h].path
              /\ calls[h][1].isValidIntl
              /\ calls[h][1].store
              /\ calls[h][2].name = Rest(req[h].path)
              /\ ~calls[h][2].isValidIntl
              /\ Done(h) => resp[h].status \in {"200", "404"}

\* C22: in every reachable state, under any interleaving of concurrent
\* requests, every positive-cache entry for path p holds bytes that an
\* archive of the ArchiveSet stores under p; the cache holds no content for
\* a path absent from all archives.
C22_PositiveCacheCoherent ==
    \A p \in PositivePaths : GetFromCache(memcache, p) \in ContentsOf(p)

\* the cache holds for a.html the bytes of the second archive, read after
\* the open of the first failed, while a request for intl/fr/a.html, whose
\* retry read that entry, is over
C22_Witness ==
    /\ logged
    /\ GetFromCache(memcache, <<"a.html">>) = "A2"
    /\ \E h \in Handlers :
          /\ Done(h)
          /\ req[h].path = <<"intl", "fr", "a.html">>
          /\ Len(calls[h]) = 2
          /\ resp[h].body = "A2"

====
